---- MODULE Spec2Model ----
(***************************************************************************)
(* Model of the Discord countdown bot (src/bot.js).                        *)
(*                                                                         *)
(* Epoch-millisecond instants do not fit TLC's 32-bit integers, so an      *)
(* instant (and a difference of instants) is kept exactly as a pair        *)
(* [day, ms] with 0 <= ms < msPerDay, standing for day * msPerDay + ms.    *)
(* Strings are TLA+ strings, read character by character with SubSeq.      *)
(* The process's local time zone is taken to be UTC.                       *)
(***************************************************************************)
EXTENDS Integers, Sequences, FiniteSets, TLC

(***************************************************************************)
(* Bounds of the model.                                                    *)
(***************************************************************************)
\* Timer ticks, inbound messages and clock advances a behaviour may hold.
MaxEvents == 2
\* Tracking messages a behaviour may send.
MaxSends == 1
\* Passes of updateAllCountdowns that may be suspended when a timer call
\* beyond MaxEvents starts another.
MaxPasses == 1

(***************************************************************************)
(* Millisecond arithmetic on [day, ms] pairs.                              *)
(***************************************************************************)
msPerDay == 86400000

T(d, m) == [day |-> d, ms |-> m]

TNorm(d, m) == T(d + (m \div msPerDay), m % msPerDay)

TSub(a, b) == TNorm(a.day - b.day, a.ms - b.ms)

TAddMs(a, k) == TNorm(a.day, a.ms + k)

TIsPositive(t) == t.day > 0 \/ (t.day = 0 /\ t.ms > 0)

\* A variant of the component arithmetic without the remainder.
FloorDivNoMod(t, unit, modulus) == (t.day * (msPerDay \div unit)) + (t.ms \div unit)

\* Math.floor((total / unit) % modulus) for total > 0, where unit divides
\* msPerDay: the day part is reduced modulo `modulus` before multiplying.
FloorDivMod(t, unit, modulus) ==
  (((t.day % modulus) * ((msPerDay \div unit) % modulus)) + (t.ms \div unit)) % modulus

(***************************************************************************)
(* getTimeRemaining and formatTimeRemaining.                               *)
(***************************************************************************)
ZeroTotal == T(0, 0)

getTimeRemaining(targetDate, now) ==
  LET total == TSub(targetDate, now) IN
  IF ~TIsPositive(total)
    THEN [expired |-> TRUE, total |-> ZeroTotal, days |-> 0, hours |-> 0,
          minutes |-> 0, seconds |-> 0]
    ELSE [expired |-> FALSE, total |-> total,
          days    |-> total.day,
          hours   |-> FloorDivMod(total, 1000 * 60 * 60, 24),
          minutes |-> FloorDivMod(total, 1000 * 60, 60),
          seconds |-> FloorDivMod(total, 1000, 60)]

RECURSIVE join(_, _)
join(parts, sep) ==
  IF Len(parts) = 0 THEN ""
  ELSE IF Len(parts) = 1 THEN parts[1]
  ELSE parts[1] \o sep \o join(Tail(parts), sep)

\* A variant of the unit wording that is always in the plural.
UnitPlural(n, word) == ToString(n) \o " " \o word \o "s"

Unit(n, word) == ToString(n) \o " " \o word \o (IF n # 1 THEN "s" ELSE "")

formatTimeRemaining(tr) ==
  IF tr.expired THEN "This countdown has expired!"
  ELSE
    LET p1 == IF tr.days > 0 THEN <<Unit(tr.days, "day")>> ELSE <<>>
        p2 == IF tr.hours > 0 THEN Append(p1, Unit(tr.hours, "hour")) ELSE p1
        p3 == IF tr.minutes > 0 THEN Append(p2, Unit(tr.minutes, "minute")) ELSE p2
        parts == IF tr.seconds > 0 THEN Append(p3, Unit(tr.seconds, "second")) ELSE p3
        joined == join(parts, ", ")
    IN IF joined = "" THEN "Just a moment" ELSE joined

(***************************************************************************)
(* Strings: the JavaScript string operations the handler uses.             *)
(***************************************************************************)
Ch(s, i) == IF 1 <= i /\ i <= Len(s) THEN SubSeq(s, i, i) ELSE ""

Digits == <<"0", "1", "2", "3", "4", "5", "6", "7", "8", "9">>

IsDigit(c) == \E k \in 1..10 : Digits[k] = c

DigitVal(c) == (CHOOSE k \in 1..10 : Digits[k] = c) - 1

IsSpace(c) == c \in {" ", "\t", "\n"}

Upper == <<"A", "B", "C", "D", "E", "F", "G", "H", "I", "J", "K", "L", "M",
           "N", "O", "P", "Q", "R", "S", "T", "U", "V", "W", "X", "Y", "Z">>
Lower == <<"a", "b", "c", "d", "e", "f", "g", "h", "i", "j", "k", "l", "m",
           "n", "o", "p", "q", "r", "s", "t", "u", "v", "w", "x", "y", "z">>

LowerCh(c) == IF \E k \in 1..26 : Upper[k] = c
                THEN Lower[CHOOSE k \in 1..26 : Upper[k] = c] ELSE c

RECURSIVE toLowerCase(_)
toLowerCase(s) ==
  IF Len(s) = 0 THEN "" ELSE LowerCh(Ch(s, 1)) \o toLowerCase(SubSeq(s, 2, Len(s)))

startsWith(s, p) == Len(s) >= Len(p) /\ SubSeq(s, 1, Len(p)) = p

slice(s, n) == SubSeq(s, n + 1, Len(s))

RECURSIVE trimStart(_)
trimStart(s) ==
  IF Len(s) > 0 /\ IsSpace(Ch(s, 1)) THEN trimStart(SubSeq(s, 2, Len(s))) ELSE s

RECURSIVE trimEnd(_)
trimEnd(s) ==
  IF Len(s) > 0 /\ IsSpace(Ch(s, Len(s))) THEN trimEnd(SubSeq(s, 1, Len(s) - 1)) ELSE s

trim(s) == trimEnd(trimStart(s))

\* s.split(sep) for a one-character separator: empty pieces are kept.
RECURSIVE splitChar(_, _, _)
splitChar(s, sep, cur) ==
  IF Len(s) = 0 THEN <<cur>>
  ELSE IF Ch(s, 1) = sep
    THEN <<cur>> \o splitChar(SubSeq(s, 2, Len(s)), sep, "")
    ELSE splitChar(SubSeq(s, 2, Len(s)), sep, cur \o Ch(s, 1))

\* s.split(/ +/): a run of spaces is one separator.
RECURSIVE splitSpaces(_, _)
splitSpaces(s, cur) ==
  IF Len(s) = 0 THEN <<cur>>
  ELSE IF Ch(s, 1) = " "
    THEN IF Len(s) > 1 /\ Ch(s, 2) = " "
           THEN splitSpaces(SubSeq(s, 2, Len(s)), cur)
           ELSE <<cur>> \o splitSpaces(SubSeq(s, 2, Len(s)), "")
    ELSE splitSpaces(SubSeq(s, 2, Len(s)), cur \o Ch(s, 1))

\* Number(s) for a string of decimal digits.
RECURSIVE NumberOf(_)
NumberOf(s) ==
  IF Len(s) = 0 THEN 0
  ELSE 10 * NumberOf(SubSeq(s, 1, Len(s) - 1)) + DigitVal(Ch(s, Len(s)))

\* Length of the longest prefix of s from position i made of digits.
RECURSIVE DigitRun(_, _)
DigitRun(s, i) == IF IsDigit(Ch(s, i)) THEN 1 + DigitRun(s, i + 1) ELSE 0

\* parseInt(s, 10): leading white space, an optional sign, then the longest
\* run of digits; anything after the run is ignored; no digit gives NaN.
\* A JavaScript number is kept as [nan, val].
parseInt(str) ==
  LET s == trimStart(str)
      sign == IF Ch(s, 1) = "-" THEN -1 ELSE 1
      from == IF Ch(s, 1) \in {"-", "+"} THEN 2 ELSE 1
      n == DigitRun(s, from)
  IN IF n = 0 THEN [nan |-> TRUE, val |-> 0]
     ELSE [nan |-> FALSE, val |-> sign * NumberOf(SubSeq(s, from, from + n - 1))]

(***************************************************************************)
(* The create command's regular expression (line 147):                     *)
(*   ^!countdown\s+"([^"]+)"\s+(\d{4}-\d{2}-\d{2})                         *)
(*      (?:\s+([0-2]?\d:[0-5]\d(?::[0-5]\d)?))?\s*$                        *)
(***************************************************************************)
RECURSIVE SkipSpaces(_, _)
SkipSpaces(s, i) == IF IsSpace(Ch(s, i)) THEN SkipSpaces(s, i + 1) ELSE i

\* Position of the first '"' at or after i, 0 when there is none.
RECURSIVE IndexOfQuote(_, _)
IndexOfQuote(s, i) ==
  IF i > Len(s) THEN 0
  ELSE IF Ch(s, i) = "\"" THEN i ELSE IndexOfQuote(s, i + 1)

\* \d{4}-\d{2}-\d{2} at position p.
MatchDate(s, p) ==
  /\ \A k \in {0, 1, 2, 3, 5, 6, 8, 9} : IsDigit(Ch(s, p + k))
  /\ Ch(s, p + 4) = "-"
  /\ Ch(s, p + 7) = "-"

\* End of [0-2]?\d:[0-5]\d(?::[0-5]\d)? at position w, with an hour of hlen
\* digits and with or without seconds; 0 when that alternative does not match.
TimeEnd(s, w, hlen, withSec) ==
  LET c == w + hlen
      e == c + 3
      hourOk == IF hlen = 2
                  THEN Ch(s, w) \in {"0", "1", "2"} /\ IsDigit(Ch(s, w + 1))
                  ELSE IsDigit(Ch(s, w))
      minOk == /\ Ch(s, c) = ":"
               /\ Ch(s, c + 1) \in {"0", "1", "2", "3", "4", "5"}
               /\ IsDigit(Ch(s, c + 2))
      secOk == /\ Ch(s, e) = ":"
               /\ Ch(s, e + 1) \in {"0", "1", "2", "3", "4", "5"}
               /\ IsDigit(Ch(s, e + 2))
  IN IF hourOk /\ minOk /\ (withSec => secOk)
       THEN (IF withSec THEN e + 3 ELSE e)
       ELSE 0

\* \s*$ at position i.
AtEnd(s, i) == SkipSpaces(s, i) = Len(s) + 1

NoMatch == [ok |-> FALSE, eventName |-> "", datePart |-> "", timePart |-> ""]

\* content.match(regex): the alternatives are tried in the regex engine's
\* order (greedy first); timePart is "" when the optional group took nothing.
countdownMatch(content) ==
  LET p1 == SkipSpaces(content, 11)
      q  == IndexOfQuote(content, p1 + 1)
      p2 == SkipSpaces(content, q + 1)
      r  == p2 + 10
      w  == SkipSpaces(content, r)
      alts == <<TimeEnd(content, w, 2, TRUE), TimeEnd(content, w, 2, FALSE),
                TimeEnd(content, w, 1, TRUE), TimeEnd(content, w, 1, FALSE)>>
      good == {k \in 1..4 : w > r /\ alts[k] > 0 /\ AtEnd(content, alts[k])}
      head == /\ startsWith(content, "!countdown")
              /\ p1 > 11
              /\ Ch(content, p1) = "\""
              /\ q > p1 + 1
              /\ p2 > q + 1
              /\ MatchDate(content, p2)
  IN IF ~head THEN NoMatch
     ELSE IF good # {}
       THEN LET k == CHOOSE x \in good : \A y \in good : x <= y
            IN [ok |-> TRUE, eventName |-> SubSeq(content, p1 + 1, q - 1),
                datePart |-> SubSeq(content, p2, r - 1),
                timePart |-> SubSeq(content, w, alts[k] - 1)]
     ELSE IF AtEnd(content, r)
       THEN [ok |-> TRUE, eventName |-> SubSeq(content, p1 + 1, q - 1),
             datePart |-> SubSeq(content, p2, r - 1), timePart |-> ""]
     ELSE NoMatch

(***************************************************************************)
(* new Date(year, monthIndex, day, hours, minutes, seconds), after         *)
(* ECMAScript's MakeDay, MakeTime, MakeDate and TimeClip: fields out of    *)
(* their calendar range carry into the next unit, they do not give NaN.    *)
(***************************************************************************)
DayFromYear(y) ==
  365 * (y - 1970) + ((y - 1969) \div 4) - ((y - 1901) \div 100) + ((y - 1601) \div 400)

IsLeapYear(y) == (y % 4 = 0 /\ y % 100 # 0) \/ y % 400 = 0

MonthStart == <<0, 31, 59, 90, 120, 151, 181, 212, 243, 273, 304, 334>>

MakeDay(year, month, date) ==
  LET ym == year + (month \div 12)
      mn == month % 12
      leapDay == IF mn >= 2 /\ IsLeapYear(ym) THEN 1 ELSE 0
  IN DayFromYear(ym) + MonthStart[mn + 1] + leapDay + date - 1

MakeTime(hour, minute, second) ==
  hour * (1000 * 60 * 60) + minute * (1000 * 60) + second * 1000

\* TimeClip: a time value beyond +-8.64e15 ms (100,000,000 days) is NaN.
TimeClipNaN(t) ==
  \/ t.day > 100000000
  \/ (t.day = 100000000 /\ t.ms > 0)
  \/ t.day < -100000000

NewDate(year, monthIndex, day, hour, minute, second) ==
  LET yr == IF 0 <= year /\ year <= 99 THEN 1900 + year ELSE year
      t == TNorm(MakeDay(yr, monthIndex, day), MakeTime(hour, minute, second))
  IN [nan |-> TimeClipNaN(t), time |-> t]

\* Lines 153-156: the fields of the match, converted and handed to Date.
targetDateOf(m) ==
  LET dp == splitChar(m.datePart, "-", "")
      tp == splitChar(IF m.timePart = "" THEN "00:00:00" ELSE m.timePart, ":", "")
      year == NumberOf(dp[1])
      month == NumberOf(dp[2])
      day == NumberOf(dp[3])
      hour == IF Len(tp) >= 1 THEN NumberOf(tp[1]) ELSE 0
      minute == IF Len(tp) >= 2 THEN NumberOf(tp[2]) ELSE 0
      second == IF Len(tp) >= 3 THEN NumberOf(tp[3]) ELSE 0
  IN NewDate(year, month - 1, day, hour, minute, second)

(***************************************************************************)
(* Countdown records and the persisted file.                               *)
(***************************************************************************)
Rec(name, targetDate, channelId, messageId, createdBy, createdAt) ==
  [name |-> name, targetDate |-> targetDate, channelId |-> channelId,
   messageId |-> messageId, createdBy |-> createdBy, createdAt |-> createdAt]

\* JSON.stringify(countdowns, null, 2): an array of objects, each object the
\* list of its <<key, value>> members in property order.
StringifyRec(r) ==
  <<<<"name", r.name>>, <<"targetDate", r.targetDate>>, <<"channelId", r.channelId>>,
    <<"messageId", r.messageId>>, <<"createdBy", r.createdBy>>,
    <<"createdAt", r.createdAt>>>>

Stringify(list) == [i \in 1..Len(list) |-> StringifyRec(list[i])]

Member(obj, key) == obj[CHOOSE i \in 1..Len(obj) : obj[i][1] = key][2]

ParseRec(obj) ==
  Rec(Member(obj, "name"), Member(obj, "targetDate"), Member(obj, "channelId"),
      Member(obj, "messageId"), Member(obj, "createdBy"), Member(obj, "createdAt"))

\* JSON.parse(data) of a well-formed file.
Parse(data) == [i \in 1..Len(data) |-> ParseRec(data[i])]

\* countdowns.json: missing, or present with text that is a JSON array
\* (wellFormed, data) or that JSON.parse rejects.
FileMissing == [exists |-> FALSE, wellFormed |-> FALSE, data |-> <<>>]
FileGarbage == [exists |-> TRUE, wellFormed |-> FALSE, data |-> <<>>]
FileOf(list) == [exists |-> TRUE, wellFormed |-> TRUE, data |-> Stringify(list)]

(***************************************************************************)
(* The environment: wall clock, users, channels, inbound messages.         *)
(***************************************************************************)
\* Date.now() at clock position k: one minute per position, position 2 being
\* 2025-02-09T00:00:00.000.
ClockStart == T(20127, 86340000)
ClockStep == 60 * 1000
NowAt(k) == TAddMs(ClockStart, (k - 1) * ClockStep)

RecA == Rec("Launch", T(47117, 43200000), "C1", "m1", "U1", T(20000, 0))
RecB == Rec("Soon", T(20128, 0), "C1", "m2", "U2", T(20000, 1))

InitFiles == {FileMissing, FileGarbage, FileOf(<<RecA, RecB>>)}

Msg(author, bot, elevated, channel, content) ==
  [author |-> author, bot |-> bot, elevated |-> elevated, channel |-> channel,
   content |-> content]

NoMsg == Msg("", FALSE, FALSE, "", "")

CreateTexts ==
  { "!countdown \"Launch\" 2099-01-01 12:00:00",
    "!countdown \"Bad\" 2024-13-40",
    "!countdown \"Late\" 2099-01-01 29:59",
    "!countdown Launch 2099-01-01",
    "!countdown \"X\" 2099-1-1",
    "!countdown \"X\" 2099-01-01 7:5",
    "!countdown \"X\" 2099-01-01 12:00 now" }

DeleteTexts ==
  { "!delcountdown", "!delcountdown abc", "!delcountdown 0", "!delcountdown 9",
    "!delcountdown 1", "!delcountdown 2", "!delcountdown 2abc" }

OtherTexts == { "!countdowns", "!help", "!ping", "hello" }

Inbound ==
  {Msg("U1", FALSE, FALSE, "C1", t) : t \in CreateTexts \cup OtherTexts}
    \cup {Msg(a[1], FALSE, a[2], "C1", t) :
            a \in {<<"U1", FALSE>>, <<"U2", FALSE>>, <<"U2", TRUE>>}, t \in DeleteTexts}
    \cup {Msg("U2", FALSE, FALSE, "C2", "!countdown \"Launch\" 2099-01-01 12:00:00"),
          Msg("B1", TRUE, FALSE, "C1", "!help")}

(***************************************************************************)
(* State.                                                                  *)
(***************************************************************************)
VARIABLES
  running,     \* the process is alive
  started,     \* the ready handler has run (the interval timer is armed)
  countdowns,  \* the array the module variable `countdowns` refers to
  file,        \* countdowns.json
  activity,    \* the presence text last given to setActivity
  clock,       \* position of the wall clock
  cycles,      \* the passes of updateAllCountdowns suspended on an await
  handlers,    \* the create handlers suspended on an await
  sends,       \* tracking messages sent so far
  events,      \* timer ticks, messages and clock advances so far
  inbox,       \* the message whose messageCreate event is being dispatched
  out,         \* the platform and file calls of the last step
  ended,       \* the pass of updateAllCountdowns that returned in the last step
  deleted,     \* messageIds of the records removed by a delete command
  probe        \* a call of a pure function studied on its own: argument, result

vars == <<running, started, countdowns, file, activity, clock, cycles,
          handlers, sends, events, inbox, out, ended, deleted, probe>>

DateNow == NowAt(clock)

(***************************************************************************)
(* Calls made on the platform and the file system.  A call that is awaited *)
(* is "pending" when issued and "ok" or "failed" when the await resumes; a *)
(* call that is not awaited is shown with its eventual result.             *)
(***************************************************************************)
Call(op, to, text, state) == [op |-> op, to |-> to, text |-> text, state |-> state]

Result(ok) == IF ok THEN "ok" ELSE "failed"

\* The calls whose promise nothing awaits inside a try block: message.reply
\* and the list and help payloads.  A rejection of one of them is handled by
\* nobody.
Floating == {"reply", "sendList", "sendHelp"}

Escapes(calls) ==
  \E k \in 1..Len(calls) : calls[k].op \in Floating /\ calls[k].state = "failed"

\* Whether the process is still running after these calls: a rejection that
\* nothing handles ends a Node process (the default of every Node version
\* discord.js v14 runs on).
AfterCalls(calls) == ~Escapes(calls)

\* The reply texts, without the backquotes (Markdown code marks) of the source,
\* which a TLA+ string cannot hold.
UsageText == "Usage: !countdown \"Event Name\" YYYY-MM-DD [HH:MM:SS]"
InvalidDateText ==
  "Invalid date-I couldn't parse that. Please use YYYY-MM-DD [HH:MM:SS]"
NoCountdownsText == "No active countdowns."
SpecifyIndexText ==
  "Please specify the index number of the countdown to delete. Use !countdowns to see the list."
InvalidIndexText == "Invalid countdown index."
NotYoursText == "You can only delete countdowns that you created."
DeletedText(name) == "Countdown \"" \o name \o "\" has been deleted."
CreateErrorText(message) ==
  "An error occurred while creating the countdown: " \o message

(***************************************************************************)
(* saveCountdowns, updateBotStatus, loadCountdowns.                        *)
(***************************************************************************)
\* How fs.writeFileSync (flag 'w') can end: the whole text is written; or
\* the file cannot be opened and is left as it was; or it is opened, which
\* truncates it, and the write then fails, which leaves a file holding no
\* complete JSON text.
WriteOutcomes == {"ok", "unopened", "truncated"}

\* A variant of saveCountdowns that never writes.
saveCountdownsNever(list, old, w) == old

\* The file after saveCountdowns: the throw of a failed writeFileSync is
\* caught and logged.
saveCountdowns(list, old, w) ==
  IF w = "ok" THEN FileOf(list)
  ELSE IF w = "unopened" THEN old
  ELSE FileGarbage

\* A variant of the status text that is always in the plural.
ActivityTextPlural(n) == ToString(n) \o " countdowns"

ActivityText(n) == ToString(n) \o " countdown" \o (IF n # 1 THEN "s" ELSE "")

updateBotStatus(list) == ActivityText(Len(list))

\* The store after loadCountdowns: the parsed file, or [] when the file is
\* missing or JSON.parse throws.
loadCountdowns(f) == IF f.exists /\ f.wellFormed THEN Parse(f.data) ELSE <<>>

(***************************************************************************)
(* Refresh passes.                                                         *)
(***************************************************************************)
Description(tr) ==
  IF tr.expired THEN "This countdown has expired!"
  ELSE "Time remaining: **" \o formatTimeRemaining(tr) \o "**"

\* updateCountdownMessage up to its first await: the remaining time is
\* computed and the embed built before any network call.
BeginUpdate(cy, cd, now) ==
  [cy EXCEPT !.i = cy.i + 1, !.cd = cd,
             !.expired = getTimeRemaining(cd.targetDate, now).expired]

\* The embed built by lines 85-92 for record cd.
EmbedBuilt(cd, now) ==
  Call("embed", cd.messageId, Description(getTimeRemaining(cd.targetDate, now)), "built")

\* A variant of updateCountdownMessage's return value without the expiry test
\* of line 98: with it an expired record outlives its pass.
UpdateResultKeepsExpired(expired, res) == res = "ok"

\* updateCountdownMessage's return value once its awaits are over.
UpdateResult(expired, res) == res = "ok" /\ ~expired

\* The calls updateCountdownMessage made, by where it stopped.
UpdateCalls(cy, res) ==
  LET fc == Call("fetchChannel", cy.cd.channelId, "", Result(res # "channelFail"))
      fm == Call("fetchMessage", cy.cd.messageId, "", Result(res # "messageFail"))
      ed == Call("edit", cy.cd.messageId, "", Result(res # "editFail"))
  IN IF res = "channelFail" THEN <<fc>>
     ELSE IF res = "messageFail" THEN <<fc, fm>>
     ELSE <<fc, fm, ed>>

Outcomes == {"ok", "channelFail", "messageFail", "editFail"}

\* A variant of line 112 that never replaces the store.
MustReplaceNever(stillActive, list) == FALSE

\* Line 112: the store is replaced only when the lengths differ.
MustReplace(stillActive, list) == Len(stillActive) # Len(list)

Disturb(cs) == [k \in DOMAIN cs |-> [cs[k] EXCEPT !.clean = FALSE]]

\* A variant of splice(k, 1) that always removes the first element.
RemoveFirst(seq, k) == Tail(seq)

\* splice(k, 1), with k counted from 1.
RemoveAt(seq, k) == SubSeq(seq, 1, k - 1) \o SubSeq(seq, k + 1, Len(seq))

\* A pass that iterates the array `countdowns` referred to keeps iterating
\* that array object after `countdowns` is assigned another one.
Detach(cs, list) ==
  [k \in DOMAIN cs |-> IF cs[k].live
                         THEN [cs[k] EXCEPT !.live = FALSE, !.old = list]
                         ELSE cs[k]]

NoRec == Rec("", ZeroTotal, "", "", "", ZeroTotal)

\* No pure function is being studied on its own.
NoProbe == [fn |-> "", arg |-> <<>>, ret |-> <<>>]

NewCycle(list) ==
  [live |-> TRUE, old |-> <<>>, i |-> 0, cd |-> NoRec, expired |-> FALSE,
   stillActive |-> <<>>, start |-> list, log |-> <<>>, clean |-> TRUE]

Init ==
  /\ running = TRUE
  /\ started = FALSE
  /\ countdowns = <<>>
  /\ file \in InitFiles
  /\ activity = ""
  /\ clock = 1
  /\ cycles = <<>>
  /\ handlers = <<>>
  /\ sends = 0
  /\ events = 0
  /\ inbox = NoMsg
  /\ out = <<>>
  /\ ended = <<>>
  /\ deleted = {}
  /\ probe = NoProbe

Idle == running /\ inbox = NoMsg

\* client.once('ready', ...)
Ready ==
  /\ Idle
  /\ UNCHANGED probe
  /\ ~started
  /\ started' = TRUE
  /\ countdowns' = loadCountdowns(file)
  /\ activity' = updateBotStatus(countdowns')
  /\ out' = <<Call("setActivity", "", activity', "ok")>>
  /\ ended' = <<>>
  /\ UNCHANGED <<running, file, clock, cycles, handlers, sends, events, inbox, deleted>>

\* Time passes between two turns of the event loop.
Tick ==
  /\ Idle
  /\ UNCHANGED probe
  /\ events < MaxEvents
  /\ events' = events + 1
  /\ clock' = clock + 1
  /\ out' = <<>>
  /\ ended' = <<>>
  /\ UNCHANGED <<running, started, countdowns, file, activity, cycles, handlers,
                 sends, inbox, deleted>>

\* updateAllCountdowns is called: the pass runs to its first await, or to its
\* end when the store is empty.
StartPass ==
  /\ IF Len(countdowns) = 0
       THEN /\ cycles' = Disturb(cycles)
            /\ ended' = <<[start |-> <<>>, log |-> <<>>, clean |-> TRUE,
                           replaced |-> FALSE]>>
       ELSE /\ cycles' = Append(Disturb(cycles),
                                BeginUpdate(NewCycle(countdowns), countdowns[1], DateNow))
            /\ ended' = <<>>
  /\ out' = IF Len(countdowns) = 0 THEN <<>> ELSE <<EmbedBuilt(countdowns[1], DateNow)>>
  /\ UNCHANGED <<running, started, countdowns, file, activity, clock, handlers,
                 sends, inbox, deleted, probe>>

\* The interval timer calls updateAllCountdowns.
TimerFire ==
  /\ Idle
  /\ started
  /\ events < MaxEvents
  /\ events' = events + 1
  /\ StartPass

\* The interval timer goes on calling updateAllCountdowns for ever: these
\* calls are not counted in `events`, and one is made only while fewer than
\* MaxPasses passes are suspended.
TimerKeepsFiring ==
  /\ Idle
  /\ started
  /\ Len(cycles) < MaxPasses
  /\ UNCHANGED events
  /\ StartPass

\* The awaits of updateCountdownMessage are over for pass c: the loop pushes
\* the record if it is still active, then takes the next element of the array
\* it iterates, or leaves the loop and runs lines 112-116.
CycleResume(c) ==
  /\ Idle
  /\ UNCHANGED probe
  /\ c \in DOMAIN cycles
  /\ \E res \in Outcomes, w \in WriteOutcomes :
       LET cy == cycles[c]
           active == UpdateResult(cy.expired, res)
           sa == IF active THEN Append(cy.stillActive, cy.cd) ELSE cy.stillActive
           lg == Append(cy.log, [cd |-> cy.cd, expired |-> cy.expired,
                                 ok |-> res = "ok"])
           arr == IF cy.live THEN countdowns ELSE cy.old
           others == Disturb(cycles)
       IN IF cy.i < Len(arr)
            THEN /\ cycles' = [others EXCEPT ![c] =
                      BeginUpdate([cy EXCEPT !.stillActive = sa, !.log = lg],
                                  arr[cy.i + 1], DateNow)]
                 /\ out' = Append(UpdateCalls(cy, res),
                                  EmbedBuilt(arr[cy.i + 1], DateNow))
                 /\ ended' = <<>>
                 /\ UNCHANGED <<countdowns, file, activity, events>>
            ELSE /\ cycles' = RemoveAt(IF MustReplace(sa, countdowns)
                                         THEN Detach(others, countdowns)
                                         ELSE others, c)
                 /\ ended' = <<[start |-> cy.start, log |-> lg, clean |-> cy.clean,
                                replaced |-> MustReplace(sa, countdowns)]>>
                 /\ IF MustReplace(sa, countdowns)
                      THEN /\ countdowns' = sa
                           /\ file' = saveCountdowns(sa, file, w)
                           /\ activity' = updateBotStatus(sa)
                           /\ out' = UpdateCalls(cy, res) \o
                                <<Call("writeFile", "", "", Result(w = "ok")),
                                  Call("setActivity", "", activity', "ok")>>
                      ELSE /\ out' = UpdateCalls(cy, res)
                           /\ UNCHANGED <<countdowns, file, activity, events>>
  /\ UNCHANGED <<running, started, clock, handlers, sends, events, inbox, deleted>>

(***************************************************************************)
(* The messageCreate handler.                                              *)
(***************************************************************************)
prefix == "!"

\* Line 140: content.slice(prefix.length).trim().split(/ +/)
ArgsOf(content) == splitSpaces(trim(slice(content, Len(prefix))), "")

\* Line 141: args.shift().toLowerCase()
CommandOf(content) == toLowerCase(ArgsOf(content)[1])

Commands == {"countdown", "countdowns", "delcountdown", "help"}

\* What the handler computes from a message before it reads any state:
\* lines 137-141 (the dispatch), 146-156 (the match and the Date) and the
\* argument of the delete command (line 223).
ParseMessage(msg) ==
  LET handled == ~msg.bot /\ startsWith(msg.content, prefix)
      args == IF handled THEN ArgsOf(msg.content) ELSE <<"">>
      command == toLowerCase(args[1])
      m == IF handled /\ command = "countdown"
             THEN countdownMatch(msg.content) ELSE NoMatch
  IN [command |-> IF handled /\ command \in Commands THEN command ELSE "",
      args |-> Tail(args),
      match |-> m,
      date |-> IF m.ok THEN targetDateOf(m) ELSE [nan |-> TRUE, time |-> ZeroTotal],
      idx |-> IF Len(args) > 1 THEN parseInt(args[2]) ELSE [nan |-> TRUE, val |-> 0]]

\* ParseMessage, tabulated once over the messages of the model.
Parsed == [msg \in Inbound \cup {NoMsg} |-> ParseMessage(msg)]

Dispatched(msg, cmd) == Parsed[msg].command = cmd

\* Lines 146-160: the create command passes both checks.
CreateAccepted(msg) == Parsed[msg].match.ok /\ ~Parsed[msg].date.nan

\* Line 224.
IndexInvalid(idx, len) == idx.nan \/ idx.val - 1 < 0 \/ idx.val - 1 >= len

\* Line 229: the negation of its condition.
MayDelete(cd, msg) == cd.createdBy = msg.author \/ msg.elevated

\* The id the platform gives the tracking message of the handler's send: a
\* fresh one for each send.
SentId(h) == "m" \o ToString(3 + h.seq)

\* A variant of the record of lines 176-183 whose creator is the channel.
NewRecordByChannel(h, now) ==
  Rec(h.name, h.targetDate, h.channel, SentId(h), h.channel, now)

\* A variant of the record of lines 176-183 that stores the id of the first
\* loaded record's message instead of the id of the message sent.
NewRecordFixedId(h, now) ==
  Rec(h.name, h.targetDate, RecA.channelId, RecA.messageId, h.author, now)

\* Lines 176-183.
NewRecord(h, now) ==
  Rec(h.name, h.targetDate, h.channel, SentId(h), h.author, now)

\* Lines 206-212: one field per record, numbered from 1.
ListText(list, now) ==
  join([i \in 1..Len(list) |->
          ToString(i) \o ". " \o list[i].name \o ": "
            \o Description(getTimeRemaining(list[i].targetDate, now))], "; ")

\* The gateway delivers a message; its handler runs in the same turn.
Receive(msg) ==
  /\ Idle
  /\ UNCHANGED probe
  /\ started
  /\ events < MaxEvents
  /\ (Dispatched(msg, "countdown") /\ CreateAccepted(msg)) => sends < MaxSends
  /\ events' = events + 1
  /\ inbox' = msg
  /\ out' = <<>>
  /\ ended' = <<>>
  /\ UNCHANGED <<running, started, countdowns, file, activity, clock, cycles,
                 handlers, sends, deleted>>

Handling == running /\ inbox # NoMsg

\* A reply that nothing awaits: sent, or failed with nobody to catch it.
Replies(text) ==
  \E ok \in BOOLEAN :
    /\ out' = <<Call("reply", inbox.author, text, Result(ok))>>
    /\ running' = AfterCalls(out')

\* Lines 137-138, and a command that is none of the four.
HandleIgnored ==
  /\ Handling
  /\ UNCHANGED probe
  /\ Dispatched(inbox, "")
  /\ inbox' = NoMsg
  /\ out' = <<>>
  /\ cycles' = Disturb(cycles)
  /\ ended' = <<>>
  /\ UNCHANGED <<running, started, countdowns, file, activity, clock, handlers, sends, events, deleted>>

\* Lines 144-173: the create command up to `await message.channel.send`.
HandleCreate ==
  /\ Handling
  /\ UNCHANGED probe
  /\ Dispatched(inbox, "countdown")
  /\ inbox' = NoMsg
  /\ cycles' = Disturb(cycles)
  /\ ended' = <<>>
  /\ LET m == countdownMatch(inbox.content) IN
     IF ~m.ok
       THEN /\ Replies(UsageText)
            /\ UNCHANGED <<handlers, sends, events>>
     ELSE IF targetDateOf(m).nan
       THEN /\ Replies(InvalidDateText)
            /\ UNCHANGED <<handlers, sends, events>>
     ELSE LET target == targetDateOf(m).time
              desc == "Time remaining: **"
                        \o formatTimeRemaining(getTimeRemaining(target, DateNow)) \o "**"
          IN /\ handlers' = Append(handlers,
                   [pc |-> "send", author |-> inbox.author, channel |-> inbox.channel,
                    name |-> m.eventName, targetDate |-> target, seq |-> sends + 1])
             /\ sends' = sends + 1
             /\ out' = <<Call("send", inbox.channel, desc, "pending")>>
             /\ UNCHANGED running
  /\ UNCHANGED <<started, countdowns, file, activity, clock, deleted, events>>

\* Lines 173-191: `await message.channel.send` resumes.
SendResume(h) ==
  /\ Idle
  /\ UNCHANGED probe
  /\ h \in DOMAIN handlers
  /\ handlers[h].pc = "send"
  /\ cycles' = Disturb(cycles)
  /\ ended' = <<>>
  /\ \E sent \in BOOLEAN, w \in WriteOutcomes :
       IF sent
         THEN /\ countdowns' = Append(countdowns, NewRecord(handlers[h], DateNow))
              /\ file' = saveCountdowns(countdowns', file, w)
              /\ activity' = updateBotStatus(countdowns')
              /\ handlers' = [handlers EXCEPT ![h].pc = "react"]
              /\ out' = <<Call("send", handlers[h].channel, SentId(handlers[h]), "ok"),
                          Call("writeFile", "", "", Result(w = "ok")),
                          Call("setActivity", "", activity', "ok"),
                          Call("react", handlers[h].author, "check", "pending")>>
              /\ UNCHANGED running
         ELSE /\ handlers' = RemoveAt(handlers, h)
              /\ \E ok \in BOOLEAN :
                   /\ out' = <<Call("send", handlers[h].channel, "", "failed"),
                               Call("reply", handlers[h].author,
                                    CreateErrorText("send failed"), Result(ok))>>
                   /\ running' = AfterCalls(out')
              /\ UNCHANGED <<countdowns, file, activity, events>>
  /\ UNCHANGED <<started, clock, sends, events, inbox, deleted>>

\* Lines 187-191: `await message.react` resumes.
ReactResume(h) ==
  /\ Idle
  /\ UNCHANGED probe
  /\ h \in DOMAIN handlers
  /\ handlers[h].pc = "react"
  /\ cycles' = Disturb(cycles)
  /\ ended' = <<>>
  /\ handlers' = RemoveAt(handlers, h)
  /\ \E reacted \in BOOLEAN :
       IF reacted
         THEN /\ out' = <<Call("react", handlers[h].author, "check", "ok")>>
              /\ UNCHANGED running
         ELSE \E ok \in BOOLEAN :
                /\ out' = <<Call("react", handlers[h].author, "check", "failed"),
                            Call("reply", handlers[h].author,
                                 CreateErrorText("react failed"), Result(ok))>>
                /\ running' = AfterCalls(out')
  /\ UNCHANGED <<started, countdowns, file, activity, clock, sends, events, inbox,
                 deleted>>

\* Lines 195-215.
HandleList ==
  /\ Handling
  /\ UNCHANGED probe
  /\ Dispatched(inbox, "countdowns")
  /\ inbox' = NoMsg
  /\ cycles' = Disturb(cycles)
  /\ ended' = <<>>
  /\ IF Len(countdowns) = 0
       THEN Replies(NoCountdownsText)
       ELSE \E ok \in BOOLEAN :
              /\ out' = <<Call("sendList", inbox.channel,
                               ListText(countdowns, DateNow), Result(ok))>>
              /\ running' = AfterCalls(out')
  /\ UNCHANGED <<started, countdowns, file, activity, clock, handlers,
                 sends, events, deleted>>

\* Lines 218-237.
HandleDelete ==
  /\ Handling
  /\ UNCHANGED probe
  /\ Dispatched(inbox, "delcountdown")
  /\ inbox' = NoMsg
  /\ cycles' = Disturb(cycles)
  /\ ended' = <<>>
  /\ LET args == Tail(ArgsOf(inbox.content)) IN
     IF Len(args) = 0
       THEN /\ Replies(SpecifyIndexText)
            /\ UNCHANGED <<countdowns, file, activity, deleted, events>>
     ELSE IF IndexInvalid(parseInt(args[1]), Len(countdowns))
       THEN /\ Replies(InvalidIndexText)
            /\ UNCHANGED <<countdowns, file, activity, deleted, events>>
     ELSE LET idx == parseInt(args[1]).val - 1
              cd == countdowns[idx + 1]
          IN IF ~MayDelete(cd, inbox)
               THEN /\ Replies(NotYoursText)
                    /\ UNCHANGED <<countdowns, file, activity, deleted, events>>
               ELSE \E w \in WriteOutcomes, ok \in BOOLEAN :
                      /\ countdowns' = RemoveAt(countdowns, idx + 1)
                      /\ file' = saveCountdowns(countdowns', file, w)
                      /\ activity' = updateBotStatus(countdowns')
                      /\ deleted' = deleted \cup {cd.messageId}
                      /\ out' = <<Call("writeFile", "", "", Result(w = "ok")),
                                  Call("setActivity", "", activity', "ok"),
                                  Call("reply", inbox.author, DeletedText(cd.name),
                                       Result(ok))>>
                      /\ running' = AfterCalls(out')
  /\ UNCHANGED <<started, clock, handlers, sends, events>>

\* Lines 240-255.
HandleHelp ==
  /\ Handling
  /\ UNCHANGED probe
  /\ Dispatched(inbox, "help")
  /\ inbox' = NoMsg
  /\ cycles' = Disturb(cycles)
  /\ ended' = <<>>
  /\ \E ok \in BOOLEAN :
       /\ out' = <<Call("sendHelp", inbox.channel, "Countdown Bot Help", Result(ok))>>
       /\ running' = AfterCalls(out')
  /\ UNCHANGED <<started, countdowns, file, activity, clock, handlers,
                 sends, events, deleted>>

Next ==
  \/ Ready
  \/ Tick
  \/ TimerFire
  \/ \E c \in DOMAIN cycles : CycleResume(c)
  \/ \E msg \in Inbound : Receive(msg)
  \/ HandleIgnored
  \/ HandleCreate
  \/ HandleList
  \/ HandleDelete
  \/ HandleHelp
  \/ \E h \in DOMAIN handlers : SendResume(h)
  \/ \E h \in DOMAIN handlers : ReactResume(h)

Spec == Init /\ [][Next]_vars

(***************************************************************************)
(* Vocabulary of the properties.                                           *)
(***************************************************************************)
Range(s) == {s[k] : k \in DOMAIN s}

Ids(list) == {list[k].messageId : k \in DOMAIN list}

Ops(calls) == {calls[k].op : k \in DOMAIN calls}

ReplyTexts(calls) ==
  {calls[k].text : k \in {j \in DOMAIN calls : calls[j].op = "reply"}}

\* The pass that finished in this step, when one did: the list it started
\* from, what it computed and observed for each record it took, whether any
\* handler or other pass ran in between, whether it replaced the store.
Finished == ended[1]

\* The records of a pass's log that were computed as not expired and whose
\* edit succeeded, in the order the pass took them.
RECURSIVE Survivors(_)
Survivors(log) ==
  IF log = <<>> THEN <<>>
  ELSE (IF ~Head(log).expired /\ Head(log).ok THEN <<Head(log).cd>> ELSE <<>>)
         \o Survivors(Tail(log))

\* The records a pass took, in the order it took them.
Taken(log) == [k \in DOMAIN log |-> log[k].cd]

(***************************************************************************)
(* C1: a refresh pass with nothing running in between.                     *)
(***************************************************************************)
\* C1: for a refresh pass during which no command handler and no other pass
\* runs, the store afterwards is exactly the records computed as not expired
\* whose edit succeeded, in their original order; every expired record is
\* gone whatever its edit did; and when as many records survive as the pass
\* started from, the store, the file and the status text are left unchanged.
C1_CleanCycle ==
  [][(ended' # <<>> /\ ended'[1].clean) =>
       LET e == ended'[1] IN
         /\ countdowns = e.start
         /\ Taken(e.log) = e.start
         /\ countdowns' = Survivors(e.log)
         /\ \A k \in DOMAIN e.log :
              e.log[k].expired => e.log[k].cd \notin Range(countdowns')
         /\ Len(Survivors(e.log)) = Len(e.start)
              => UNCHANGED <<countdowns, file, activity>>]_vars

\* An undisturbed pass over two records has just dropped the one that expired
\* (its last edit had succeeded) and kept the other.
C1_Witness ==
  /\ ended # <<>>
  /\ Finished.clean
  /\ Finished.replaced
  /\ Finished.start = <<RecA, RecB>>
  /\ \E k \in DOMAIN Finished.log : Finished.log[k].expired /\ Finished.log[k].ok
  /\ countdowns = <<RecA>>

(***************************************************************************)
(* C2: a date of the right shape that is no calendar date.                 *)
(***************************************************************************)
DaysInMonth(y, m) ==
  IF m = 2 THEN (IF IsLeapYear(y) THEN 29 ELSE 28)
  ELSE IF m \in {4, 6, 9, 11} THEN 30 ELSE 31

\* Whether YYYY-MM-DD names a day of the calendar.
IsCalendarDate(datePart) ==
  LET y == NumberOf(SubSeq(datePart, 1, 4))
      m == NumberOf(SubSeq(datePart, 6, 7))
      d == NumberOf(SubSeq(datePart, 9, 10))
  IN m \in 1..12 /\ d \in 1..DaysInMonth(y, m)

BadCalendarDate(msg) ==
  /\ Dispatched(msg, "countdown")
  /\ Parsed[msg].match.ok
  /\ ~IsCalendarDate(Parsed[msg].match.datePart)

\* C2: a create command whose date has the shape YYYY-MM-DD but is no
\* calendar date fails validation: no tracking message is sent, no creation
\* is under way, the store and the file are unchanged, and an error reply is
\* issued.
C2_InvalidCalendarDate ==
  [][(Handling /\ BadCalendarDate(inbox)) =>
       /\ "send" \notin Ops(out')
       /\ handlers' = handlers
       /\ UNCHANGED <<countdowns, file>>
       /\ "reply" \in Ops(out')]_vars

(***************************************************************************)
(* C3, C4: delete commands and creations at the suspension points of a     *)
(* refresh pass.                                                           *)
(***************************************************************************)
\* C3: a record that a delete command removed (its message id is in
\* `deleted` from the step that issued the confirmation) never comes back:
\* once out of the store it stays out of the store, and once out of the file
\* it stays out of the file.
C3_DeletedStaysDeleted ==
  [][\A id \in deleted :
       /\ id \notin Ids(countdowns) => id \notin Ids(countdowns')
       /\ id \notin Ids(loadCountdowns(file))
            => id \notin Ids(loadCountdowns(file'))]_vars

\* C4: when a refresh pass replaces the store, every record that was in the
\* store just before and is not in it just after was, in that pass, computed
\* as expired or had its edit fail.
C4_NoLiveRecordLost ==
  [][(ended' # <<>> /\ ended'[1].replaced) =>
       \A r \in Range(countdowns) \ Range(countdowns') :
         \E k \in DOMAIN ended'[1].log :
           /\ ended'[1].log[k].cd = r
           /\ ended'[1].log[k].expired \/ ~ended'[1].log[k].ok]_vars

(***************************************************************************)
(* C5: the create command.                                                 *)
(***************************************************************************)
\* The step in which `await message.channel.send` resumed.
SendSucceeded(calls) ==
  calls # <<>> /\ calls[1].op = "send" /\ calls[1].state = "ok"

SendFailed(calls) ==
  calls # <<>> /\ calls[1].op = "send" /\ calls[1].state = "failed"

\* C5: a create command that passes validation changes nothing before its
\* tracking message is sent; when the send succeeds the store gains exactly
\* one record, at its end, with the name, target instant, channel and author
\* of the command and the id of the sent message, and the success reaction
\* is issued; when the send fails the store and the file are unchanged and
\* an error reply is issued.
C5_CreateAppendsAfterSend ==
  [][/\ (Handling /\ Dispatched(inbox, "countdown") /\ CreateAccepted(inbox)) =>
          /\ UNCHANGED <<countdowns, file>>
          /\ Len(handlers') = Len(handlers) + 1
          /\ LET h == handlers'[Len(handlers')] IN
               /\ h.name = Parsed[inbox].match.eventName
               /\ h.targetDate = Parsed[inbox].date.time
               /\ h.channel = inbox.channel
               /\ h.author = inbox.author
     /\ SendSucceeded(out') =>
          \E h \in DOMAIN handlers :
            /\ handlers[h].pc = "send"
            /\ Len(countdowns') = Len(countdowns) + 1
            /\ SubSeq(countdowns', 1, Len(countdowns)) = countdowns
            /\ LET r == countdowns'[Len(countdowns')] IN
                 /\ r.name = handlers[h].name
                 /\ r.targetDate = handlers[h].targetDate
                 /\ r.channelId = handlers[h].channel
                 /\ r.messageId = out'[1].text
                 /\ r.createdBy = handlers[h].author
            /\ "react" \in Ops(out')
     /\ SendFailed(out') =>
          /\ UNCHANGED <<countdowns, file>>
          /\ "reply" \in Ops(out')]_vars

\* The tracking message of `!countdown "Launch" 2099-01-01 12:00:00`, sent by
\* U1 in C1, has just been sent and its record appended after the two records
\* loaded at start.
C5_Witness ==
  /\ SendSucceeded(out)
  /\ Len(countdowns) = 3
  /\ countdowns[3].name = "Launch"
  /\ countdowns[3].targetDate = T(47117, 43200000)
  /\ countdowns[3].channelId = "C1"
  /\ countdowns[3].createdBy = "U1"

(***************************************************************************)
(* C6, C7, C8: the delete command and the commands that fail validation.   *)
(***************************************************************************)
\* A string that is a decimal numeral and nothing else.
IsDecimalInteger(s) == Len(s) > 0 /\ \A i \in 1..Len(s) : IsDigit(Ch(s, i))

\* The delete command names an index: one numeric argument.
HasIndex(msg) ==
  /\ Dispatched(msg, "delcountdown")
  /\ Len(Parsed[msg].args) > 0
  /\ IsDecimalInteger(Parsed[msg].args[1])

IndexOf(msg) == NumberOf(Parsed[msg].args[1])

\* The delete command names an index in [1, length].
ValidIndex(msg, list) == HasIndex(msg) /\ IndexOf(msg) \in 1..Len(list)

\* The requester is the creator of the record named, or holds the elevated
\* permission.
Authorised(msg, list) ==
  list[IndexOf(msg)].createdBy = msg.author \/ msg.elevated

\* `after` is `before` without its N-th record, the others in their order.
NthRemoved(before, after, N) ==
  /\ Len(after) = Len(before) - 1
  /\ \A k \in 1..(N - 1) : after[k] = before[k]
  /\ \A k \in N..Len(after) : after[k] = before[k + 1]

WriteSucceeded(calls) ==
  \E k \in DOMAIN calls : calls[k].op = "writeFile" /\ calls[k].state = "ok"

Entries(f) == IF f.exists /\ f.wellFormed THEN Len(f.data) ELSE 0

\* C6 as stated: for a store of n records and a delete command with index N
\* in [1, n] from the record's creator or an elevated user, the store
\* afterwards is the previous list without its N-th record, the file holds
\* n-1 entries, and the confirmation reply is issued.
C6_DeleteRemovesNth ==
  [][(Handling /\ ValidIndex(inbox, countdowns) /\ Authorised(inbox, countdowns)) =>
       /\ NthRemoved(countdowns, countdowns', IndexOf(inbox))
       /\ DeletedText(countdowns[IndexOf(inbox)].name) \in ReplyTexts(out')
       /\ Entries(file') = Len(countdowns) - 1]_vars

\* C6 for a save that succeeds: for a store of n records and a delete
\* command with index N in [1, n] from the record's creator or an elevated
\* user, the store afterwards is the previous list without its N-th record
\* and the confirmation reply is issued; the file is written once, and when
\* that write succeeds it holds exactly the n-1 remaining records.
C6_DeleteRemovesNthWhenSaved ==
  [][(Handling /\ ValidIndex(inbox, countdowns) /\ Authorised(inbox, countdowns)) =>
       /\ NthRemoved(countdowns, countdowns', IndexOf(inbox))
       /\ DeletedText(countdowns[IndexOf(inbox)].name) \in ReplyTexts(out')
       /\ "writeFile" \in Ops(out')
       /\ WriteSucceeded(out') =>
            /\ loadCountdowns(file') = countdowns'
            /\ Entries(file') = Len(countdowns) - 1]_vars

\* `!delcountdown 1` has just removed the first of the two loaded records:
\* the second is now at position 1, the file holds that one record, and the
\* confirmation names the record removed.
C6_Witness ==
  /\ ReplyTexts(out) = {DeletedText("Launch")}
  /\ countdowns = <<RecB>>
  /\ file = FileOf(<<RecB>>)
  /\ deleted = {"m1"}

\* C7: a delete command with a valid index from a user who is neither the
\* record's creator nor elevated removes nothing and is answered with the
\* authorization error, which is not a validation error; a delete command
\* whose index is missing, non-numeric or outside [1, length] is answered
\* with a validation error and never with the authorization error.
C7_AuthorizationOrValidation ==
  [][(Handling /\ Dispatched(inbox, "delcountdown")) =>
       /\ NotYoursText \notin {SpecifyIndexText, InvalidIndexText}
       /\ (ValidIndex(inbox, countdowns) /\ ~Authorised(inbox, countdowns)) =>
            /\ UNCHANGED <<countdowns, file, activity>>
            /\ ReplyTexts(out') = {NotYoursText}
       /\ ~ValidIndex(inbox, countdowns) =>
            /\ ReplyTexts(out') # {}
            /\ ReplyTexts(out') \subseteq {SpecifyIndexText, InvalidIndexText}]_vars

\* A create command that is not of the required shape, or a delete command
\* whose index is missing, non-numeric or out of range.
FailsValidation(msg, list) ==
  \/ Dispatched(msg, "countdown") /\ ~Parsed[msg].match.ok
  \/ Dispatched(msg, "delcountdown") /\ ~ValidIndex(msg, list)

\* C8: a command that fails validation leaves the store, the file and the
\* status text unchanged, starts no creation and sends no tracking message:
\* all it does is reply.
C8_ValidationFailureFrame ==
  [][(Handling /\ FailsValidation(inbox, countdowns)) =>
       /\ UNCHANGED <<countdowns, file, activity, handlers>>
       /\ Ops(out') = {"reply"}]_vars

(***************************************************************************)
(* C9: a failed edit in a refresh pass.                                    *)
(***************************************************************************)
\* C9: when a refresh pass in which a fetch or an edit failed ends, no record
\* that failed in it is in the store; every record the pass started from
\* that is still in the store when the pass ends had its edit attempted; and
\* such a record, when its edit succeeded and it had not expired, is kept.
C9_FailedEditDropped ==
  [][(ended' # <<>> /\ \E k \in DOMAIN ended'[1].log : ~ended'[1].log[k].ok) =>
       LET e == ended'[1] IN
         /\ \A k \in DOMAIN e.log :
              ~e.log[k].ok => e.log[k].cd \notin Range(countdowns')
         /\ \A r \in Range(e.start) \cap Range(countdowns) :
              /\ r \in Range(Taken(e.log))
              /\ r \in Range(Survivors(e.log)) => r \in Range(countdowns')]_vars

(***************************************************************************)
(* C10: a reply that fails in transport.                                   *)
(***************************************************************************)
\* C10: when a reply or payload sent by a command handler fails in
\* transport, the failure does not escape the handler and the process keeps
\* running.
C10_ReplyFailureContained == Escapes(out) => running

(***************************************************************************)
(* C11, C12: the file and the status text follow the store.                *)
(***************************************************************************)
\* The file holds the store's record list; a missing file holds the empty
\* list, a file that cannot be parsed holds none.
InSync == (file.exists => file.wellFormed) /\ loadCountdowns(file) = countdowns

WriteFailed(calls) ==
  \E k \in DOMAIN calls : calls[k].op = "writeFile" /\ calls[k].state = "failed"

\* C11: when the file was missing or well-formed at startup and every write
\* succeeds, the file's record list equals the store at every return to the
\* event loop after startup.  Stated step by step: the ready step of such a
\* file ends with the two equal, and every later step that starts with them
\* equal and in which no write fails ends with them equal.
C11_FileFollowsStore ==
  [][(/\ started'
      /\ ~WriteFailed(out')
      /\ IF started THEN InSync ELSE ~file.exists \/ file.wellFormed)
       => InSync']_vars

\* A create command has just appended its record to the two loaded at start
\* and saved; the file holds the three records.
C11_Witness ==
  /\ SendSucceeded(out)
  /\ WriteSucceeded(out)
  /\ Len(countdowns) = 3
  /\ file = FileOf(countdowns)

\* The status text for a store of n records.
StatusFor(n) == IF n = 1 THEN "1 countdown" ELSE ToString(n) \o " countdowns"

\* C12: after the ready event, at every return to the event loop, the status
\* text shows the number of records in the store, in the singular for
\* exactly one record and in the plural otherwise.
C12_StatusShowsCount == started => activity = StatusFor(Len(countdowns))

\* A delete command has left one record in the store, and the status text is
\* in the singular.
C12_Witness ==
  /\ started
  /\ deleted # {}
  /\ Len(countdowns) = 1
  /\ activity = "1 countdown"

(***************************************************************************)
(* C13: an hour outside 0-23.                                              *)
(***************************************************************************)
\* The hour of a time of day H:MM, HH:MM or HH:MM:SS.
HourOf(timePart) ==
  IF Ch(timePart, 2) = ":" THEN NumberOf(SubSeq(timePart, 1, 1))
  ELSE NumberOf(SubSeq(timePart, 1, 2))

HourOutOfRange(msg) ==
  /\ Dispatched(msg, "countdown")
  /\ Parsed[msg].match.ok
  /\ Parsed[msg].match.timePart # ""
  /\ HourOf(Parsed[msg].match.timePart) > 23

\* C13: a create command whose time of day has an hour above 23 fails
\* validation: the usage reply is sent, no tracking message is sent, no
\* creation is under way and the store is unchanged.
C13_HourOutOfRange ==
  [][(Handling /\ HourOutOfRange(inbox)) =>
       /\ ReplyTexts(out') = {UsageText}
       /\ "send" \notin Ops(out')
       /\ handlers' = handlers
       /\ UNCHANGED countdowns]_vars

(***************************************************************************)
(* getTimeRemaining and formatTimeRemaining on their own: a behaviour      *)
(* picks an argument and makes one call.                                   *)
(***************************************************************************)
\* Milliseconds within a day at and around the unit boundaries.
ProbeMs == {0, 1, 999, 1000, 59999, 60000, 3599999, 3600000, 86399999}

\* Target instants, up to 20000 days after the first `now`.
ProbeTargets == {T(d, m) : d \in {0, 1, 2, 20000}, m \in ProbeMs}

\* Values of Date.now().
ProbeNows == {T(0, 0), T(0, 1), T(0, 1000), T(1, 0), T(1, 86399999), T(2, 3600000)}

\* Structured durations, those getTimeRemaining returns and others.
ProbeDurations ==
  {[expired |-> e, total |-> ZeroTotal, days |-> d, hours |-> h, minutes |-> m,
    seconds |-> sec] :
     e \in BOOLEAN, d \in {0, 1, 2}, h \in {0, 1, 23}, m \in {0, 1, 59},
     sec \in {0, 1, 59}}

PureInit ==
  /\ running = TRUE
  /\ started = FALSE
  /\ countdowns = <<>>
  /\ file = FileMissing
  /\ activity = ""
  /\ clock = 1
  /\ cycles = <<>>
  /\ handlers = <<>>
  /\ sends = 0
  /\ events = 0
  /\ inbox = NoMsg
  /\ out = <<>>
  /\ ended = <<>>
  /\ deleted = {}
  /\ probe \in
       {[fn |-> "getTimeRemaining", arg |-> <<t, n>>, ret |-> <<>>] :
          t \in ProbeTargets, n \in ProbeNows}
       \cup {[fn |-> "formatTimeRemaining", arg |-> <<tr>>, ret |-> <<>>] :
               tr \in ProbeDurations}

\* getTimeRemaining(targetDate) called while Date.now() is arg[2].
CallGetTimeRemaining ==
  /\ probe.fn = "getTimeRemaining"
  /\ probe.ret = <<>>
  /\ probe' = [probe EXCEPT !.ret = <<getTimeRemaining(probe.arg[1], probe.arg[2])>>]
  /\ UNCHANGED <<running, started, countdowns, file, activity, clock, cycles,
                 handlers, sends, events, inbox, out, ended, deleted>>

\* formatTimeRemaining(tr).
CallFormatTimeRemaining ==
  /\ probe.fn = "formatTimeRemaining"
  /\ probe.ret = <<>>
  /\ probe' = [probe EXCEPT !.ret = <<formatTimeRemaining(probe.arg[1])>>]
  /\ UNCHANGED <<running, started, countdowns, file, activity, clock, cycles,
                 handlers, sends, events, inbox, out, ended, deleted>>

PureNext == CallGetTimeRemaining \/ CallFormatTimeRemaining

PureSpec == PureInit /\ [][PureNext]_vars

(***************************************************************************)
(* C14: the duration calculator.                                           *)
(***************************************************************************)
Returned(fn) == probe.fn = fn /\ probe.ret # <<>>

\* now >= target, for instants kept as [day, ms].
NotBefore(now, target) ==
  now.day > target.day \/ (now.day = target.day /\ now.ms >= target.ms)

\* floor((target - now) / 1000).
WholeSeconds(target, now) ==
  (target.day - now.day) * 86400 + ((target.ms - now.ms) \div 1000)

\* C14: for every target and now, the calculator returns expired with total,
\* days, hours, minutes and seconds all 0 exactly when now >= target, and
\* otherwise not expired with hours in 0..23, minutes and seconds in 0..59 and
\* days*86400 + hours*3600 + minutes*60 + seconds = floor((target-now)/1000).
C14_DurationDecomposition ==
  Returned("getTimeRemaining") =>
    LET target == probe.arg[1]
        now == probe.arg[2]
        tr == probe.ret[1]
    IN /\ tr.expired <=> NotBefore(now, target)
       /\ tr.expired =>
            /\ tr.total = ZeroTotal
            /\ tr.days = 0 /\ tr.hours = 0 /\ tr.minutes = 0 /\ tr.seconds = 0
       /\ ~tr.expired =>
            /\ tr.days >= 0
            /\ tr.hours \in 0..23
            /\ tr.minutes \in 0..59
            /\ tr.seconds \in 0..59
            /\ tr.days * 86400 + tr.hours * 3600 + tr.minutes * 60 + tr.seconds
                 = WholeSeconds(target, now)

\* The calculator has returned 1 day, 23 hours, 59 minutes and 59 seconds for
\* a target one millisecond short of two days ahead.
C14_Witness ==
  /\ Returned("getTimeRemaining")
  /\ probe.arg = <<T(2, 0), T(0, 1)>>
  /\ ~probe.ret[1].expired
  /\ probe.ret[1].days = 1
  /\ probe.ret[1].hours = 23
  /\ probe.ret[1].minutes = 59
  /\ probe.ret[1].seconds = 59

(***************************************************************************)
(* C15: the duration formatter.                                            *)
(***************************************************************************)
Worded(n, one, many) == ToString(n) \o " " \o (IF n = 1 THEN one ELSE many)

\* The wording of each component that is not zero, days first.
Listed(tr) ==
  (IF tr.days # 0 THEN <<Worded(tr.days, "day", "days")>> ELSE <<>>)
    \o (IF tr.hours # 0 THEN <<Worded(tr.hours, "hour", "hours")>> ELSE <<>>)
    \o (IF tr.minutes # 0 THEN <<Worded(tr.minutes, "minute", "minutes")>> ELSE <<>>)
    \o (IF tr.seconds # 0 THEN <<Worded(tr.seconds, "second", "seconds")>> ELSE <<>>)

RECURSIVE CommaList(_)
CommaList(items) ==
  IF Len(items) = 1 THEN items[1]
  ELSE items[1] \o ", " \o CommaList(Tail(items))

\* C15: the formatter returns the expiry phrase for an expired duration;
\* otherwise the components that are not zero, in the order days, hours,
\* minutes, seconds, each in the singular when it is 1 and in the plural
\* otherwise, separated by commas; and "Just a moment" when the duration is
\* not expired and every component is zero.
C15_FormatterWording ==
  Returned("formatTimeRemaining") =>
    LET tr == probe.arg[1]
        text == probe.ret[1]
    IN IF tr.expired THEN text = "This countdown has expired!"
       ELSE IF Listed(tr) = <<>> THEN text = "Just a moment"
       ELSE text = CommaList(Listed(tr))

\* The formatter has worded 1 day, no hours, 59 minutes and 1 second.
C15_Witness ==
  /\ Returned("formatTimeRemaining")
  /\ ~probe.arg[1].expired
  /\ probe.arg[1].days = 1
  /\ probe.arg[1].hours = 0
  /\ probe.ret[1] = "1 day, 59 minutes, 1 second"

(***************************************************************************)
(* C16: a save whose write fails.                                          *)
(***************************************************************************)
\* C16: when the write of a save fails, the store keeps the mutation that
\* led to the save, the step goes on to refresh the status text (and a
\* delete command to issue its confirmation, a create command its reaction),
\* and the file keeps the contents it had; and a save whose write succeeds
\* leaves the file holding the store's record list.
C16_WriteFailureContained ==
  [][/\ WriteFailed(out') =>
          /\ countdowns' # countdowns
          /\ "setActivity" \in Ops(out')
          /\ Handling => "reply" \in Ops(out')
          /\ SendSucceeded(out') => "react" \in Ops(out')
          /\ file' = file
     /\ WriteSucceeded(out') => InSync']_vars

(***************************************************************************)
(* C17: refresh passes in progress.                                        *)
(***************************************************************************)
\* C17: at most one refresh pass is in progress at any time.
C17_SinglePass == Len(cycles) <= 1

(***************************************************************************)
(* C18: message references are unique.                                     *)
(***************************************************************************)
\* C18: no two records of the store have the same (channelId, messageId)
\* pair, the loaded file having none and every sent message a fresh id.
C18_UniqueMessageRefs ==
  \A i, j \in DOMAIN countdowns :
    (/\ countdowns[i].channelId = countdowns[j].channelId
     /\ countdowns[i].messageId = countdowns[j].messageId) => i = j

\* A create command has appended its record to the two loaded ones while a
\* refresh pass was suspended on an await.
C18_Witness ==
  /\ SendSucceeded(out)
  /\ cycles # <<>>
  /\ Len(countdowns) = 3
  /\ countdowns[3].messageId \notin {RecA.messageId, RecB.messageId}

(***************************************************************************)
(* C20: how an accepted create command ends.                               *)
(***************************************************************************)
CreateErrorIssued(calls) ==
  \E k \in DOMAIN calls :
    /\ calls[k].op = "reply"
    /\ calls[k].text \in {CreateErrorText("send failed"), CreateErrorText("react failed")}

ReactionAdded(calls) ==
  \E k \in DOMAIN calls : calls[k].op = "react" /\ calls[k].state = "ok"

\* The create handlers that return in this step.
Returning == {h \in DOMAIN handlers : \A g \in DOMAIN handlers' : handlers'[g].seq # handlers[h].seq}

\* C20: a create command that passed validation ends in exactly one of two
\* ways: the success reaction is added and no creation-error reply is sent,
\* or the creation-error reply is sent, no reaction is added, and the record
\* of that command is neither in the store nor in the file.
C20_CreateOutcome ==
  [][\A h \in Returning :
       \/ ReactionAdded(out') /\ ~CreateErrorIssued(out')
       \/ /\ CreateErrorIssued(out')
          /\ ~ReactionAdded(out')
          /\ SentId(handlers[h]) \notin Ids(countdowns')
          /\ SentId(handlers[h]) \notin Ids(loadCountdowns(file'))]_vars

(***************************************************************************)
(* The bot with a timer that never stops and calls that always return.     *)
(***************************************************************************)
\* The messages of these behaviours: a create command whose target instant
\* is 2025-02-09T00:00, which has passed at clock position 2, a delete
\* command, and one message for each other branch of the handler.
LiveInbound ==
  {Msg("U1", FALSE, FALSE, "C1", "!countdown \"Bad\" 2024-13-40"),
   Msg("U1", FALSE, FALSE, "C1", "!delcountdown 1"),
   Msg("U1", FALSE, FALSE, "C1", "!countdowns"),
   Msg("U1", FALSE, FALSE, "C1", "!help"),
   Msg("U1", FALSE, FALSE, "C1", "hello")}

\* The bot starts from a file holding the two records.
LiveInit == Init /\ file = FileOf(<<RecA, RecB>>)

LiveNext ==
  \/ Ready
  \/ Tick
  \/ TimerFire
  \/ TimerKeepsFiring
  \/ \E c \in DOMAIN cycles : CycleResume(c)
  \/ \E msg \in LiveInbound : Receive(msg)
  \/ HandleIgnored
  \/ HandleCreate
  \/ HandleList
  \/ HandleDelete
  \/ HandleHelp
  \/ \E h \in DOMAIN handlers : SendResume(h)
  \/ \E h \in DOMAIN handlers : ReactResume(h)

\* A handler is due: its message is dispatched.  Every one of the five
\* handler actions empties `inbox`, and one of them is enabled for every
\* message, so this is when a step of theirs is enabled.
HandleEnabled == Handling

\* Pass c is suspended in an await; resuming it always changes `cycles`.
CycleResumeEnabled(c) == Idle /\ c \in DOMAIN cycles

\* The timer can call updateAllCountdowns again, and the call changes
\* something: it starts a pass, or it is an empty pass whose record is not
\* already the last thing that happened.
TimerKeepsFiringEnabled ==
  /\ Idle
  /\ started
  /\ Len(cycles) < MaxPasses
  /\ \/ Len(countdowns) > 0
     \/ out # <<>>
     \/ Disturb(cycles) # cycles
     \/ ended # <<[start |-> <<>>, log |-> <<>>, clean |-> TRUE,
                   replaced |-> FALSE]>>

\* The last two conditions are the enabling conditions of the steps they
\* name.  (For the first: the handler actions are the only ones guarded by
\* Handling, each is guarded by it, and no state with a dispatched message
\* is without a successor.)
EnablingConditions ==
  /\ \A c \in 1..(MaxEvents + MaxPasses) :
       CycleResumeEnabled(c) <=> ENABLED <<CycleResume(c)>>_vars
  /\ TimerKeepsFiringEnabled <=> ENABLED <<TimerKeepsFiring>>_vars

\* The ready event comes; a handler runs in the turn its message is
\* dispatched; every await of a pass or of a create handler resumes; the
\* timer keeps firing.  Messages and clock advances need not come.  Weak
\* fairness of the handlers, of the passes and of the timer is written out
\* as "infinitely often not enabled, or infinitely often taken", with the
\* enabling conditions above.
Fairness ==
  /\ WF_vars(Ready)
  /\ \/ []<>(~HandleEnabled)
     \/ []<><<HandleIgnored \/ HandleCreate \/ HandleList \/ HandleDelete
                \/ HandleHelp>>_vars
  /\ \A c \in 1..(MaxEvents + MaxPasses) :
       []<>(~CycleResumeEnabled(c)) \/ []<><<CycleResume(c)>>_vars
  /\ \A h \in 1..MaxSends : WF_vars(SendResume(h)) /\ WF_vars(ReactResume(h))
  /\ []<>(~TimerKeepsFiringEnabled) \/ []<><<TimerKeepsFiring>>_vars

LiveSpec == LiveInit /\ [][LiveNext]_vars /\ Fairness

(***************************************************************************)
(* C19: expired records are pruned in the end.                             *)
(***************************************************************************)
\* The message ids a record of the store can have.
RecordIds ==
  {RecA.messageId, RecB.messageId} \cup {SentId([seq |-> k]) : k \in 1..MaxSends}

\* A record with this id is in the store and its target instant has passed.
ExpiredInStore(id) ==
  \E k \in DOMAIN countdowns :
    /\ countdowns[k].messageId = id
    /\ getTimeRemaining(countdowns[k].targetDate, DateNow).expired

\* C19: while the process runs, the timer keeps firing and every call
\* returns, a record that is in the store after its target instant has
\* passed is eventually out of the store, and stays out.
C19_ExpiredPruned ==
  \A id \in RecordIds :
    [](ExpiredInStore(id) => <>[](~running \/ id \notin Ids(countdowns)))

\* A pass has just dropped the loaded record whose target instant passed,
\* its last edit showing the expiry.
C19_Witness ==
  /\ ended # <<>>
  /\ Finished.replaced
  /\ \E k \in DOMAIN Finished.log :
       /\ Finished.log[k].cd = RecB
       /\ Finished.log[k].expired
  /\ RecB.messageId \notin Ids(countdowns)
  /\ running

====
